---------------------------- MODULE Spec2Model ----------------------------
(***************************************************************************)
(* Model of the annual-registration-fee notice downloader:                 *)
(*   src/patent_pdf_downloader.py  identifier helpers, page fetcher,        *)
(*                                 extractor, CLI pipeline                  *)
(*   src/app.py                    web handlers check / download / batch    *)
(*                                 and build_payload                        *)
(*                                                                         *)
(* A Python string is a sequence of one-character strings, so slicing,     *)
(* split, join and startswith are computed and not assumed.  A regular     *)
(* expression search over a response body is modelled by its result: an     *)
(* optional capture, <<>> for no match and <<v>> for a match capturing v.   *)
(***************************************************************************)
EXTENDS Integers, Sequences, FiniteSets, TLC

VARIABLES
    mode,          \* which entry point is running
    pc,            \* position inside the running handler
    rgst_numbers,  \* download_batch: the request's list
    idx,           \* download_batch: 1-based position of the loop
    input_no,      \* the stripped identifier of the current run
    knx,           \* requested record index (download_pdf, download_by_rgst_no)
    appl_no,       \* normalized application number handed to the lookup
    normalized,    \* the registration id the record page is fetched for
    response1,     \* get_registration_page: its first response, << >> before it
    post_data,     \* form fields of the record-page POST, <<>> before it
    html_source,   \* the body get_registration_page returned, << >> once parsed
    data_list,     \* parse_pdf_data(html_source)
    additional,    \* parse_additional_params(html_source)
    ls_arr,        \* the selected record split by "#@"
    payload,       \* the 47 slots arg1..arg47, <<>> before mapping
    url_path,      \* the chosen endpoint, "" before selection
    response,      \* body of the submission response, "" before it
    results,       \* download_batch: the results list
    zip_file,      \* download_batch: archive entries in write order
    written,       \* CLI: files written, in order
    output_filename, \* CLI: << >> for None, else << name >>
    outcome,       \* what the handler returned, <<>> while running
    steps          \* network calls and pipeline steps of the current identifier

vars == << mode, pc, rgst_numbers, idx, input_no, knx, appl_no, normalized,
           response1, post_data, html_source, data_list, additional, ls_arr, payload, url_path,
           response, results, zip_file, written, output_filename, outcome,
           steps >>

-----------------------------------------------------------------------------
(* Bounds of the model *)

MaxBatch == 2      \* longest rgst_numbers list of a batch request
MaxBlocks == 1     \* most ls_arg[...] assignment blocks on one page
MaxFields == 47    \* longest field list handed to the mapper on its own

(* Program constants *)

NumArgs == 47          \* arg1 .. arg47
CanonicalLen == 13     \* len(normalized) >= 13
ShortLen == 9          \* len(normalized) == 9
MidLen == 10           \* len(normalized) == 10
YearLo == 2000
YearHi == 2099

-----------------------------------------------------------------------------
(* Python string helpers *)

EmptyStr == << >>

Min(a, b) == IF a < b THEN a ELSE b

\* s[a:b] with 0-based a, exclusive b, clipped to the string
Slice(s, a, b) == SubSeq(s, a + 1, Min(b, Len(s)))

\* s[a:]
SliceFrom(s, a) == SubSeq(s, a + 1, Len(s))

\* ls_arr[i] with the 0-based index of the source
At(s, i) == s[i + 1]

\* s.replace('-', '')
RemoveHyphens(s) == SelectSeq(s, LAMBDA c : c # "-")

RECURSIVE LStrip(_)
LStrip(s) == IF s # << >> /\ Head(s) = " " THEN LStrip(Tail(s)) ELSE s

RECURSIVE RStrip(_)
RStrip(s) ==
    IF s # << >> /\ s[Len(s)] = " " THEN RStrip(SubSeq(s, 1, Len(s) - 1)) ELSE s

\* s.strip()
Strip(s) == RStrip(LStrip(s))

\* s.startswith(c) for a one-character c
StartsWith(s, c) == Len(s) > 0 /\ s[1] = c

Digits == << "0", "1", "2", "3", "4", "5", "6", "7", "8", "9" >>

\* the character U+00B2, SUPERSCRIPT TWO: one of the characters for which
\* str.isdigit() is true and which int() does not accept
Sup2 == "sup2"

IsDecimalChar(c) == \E i \in 1..Len(Digits) : Digits[i] = c

IsDigitChar(c) == IsDecimalChar(c) \/ c = Sup2

\* s.isdigit()
IsDigitStr(s) == s # << >> /\ \A i \in 1..Len(s) : IsDigitChar(s[i])

\* int(s) raises ValueError
int_raises(s) == s = << >> \/ \E i \in 1..Len(s) : ~IsDecimalChar(s[i])

DigitVal(c) == (CHOOSE i \in 1..Len(Digits) : Digits[i] = c) - 1

\* int(s) for an s that int() accepts
RECURSIVE ToInt(_)
ToInt(s) ==
    IF s = << >> THEN 0
    ELSE ToInt(SubSeq(s, 1, Len(s) - 1)) * 10 + DigitVal(s[Len(s)])

Delim == << "#", "@" >>

\* sep.join(values), halving the list so that the evaluation stays shallow
RECURSIVE Join(_, _)
Join(values, sep) ==
    IF values = << >> THEN EmptyStr
    ELSE IF Len(values) = 1 THEN values[1]
    ELSE LET h == Len(values) \div 2 IN
         Join(SubSeq(values, 1, h), sep) \o sep
             \o Join(SubSeq(values, h + 1, Len(values)), sep)

DelimAt(s, j) == s[j] = Delim[1] /\ s[j + 1] = Delim[2]

\* s.find('#@', i - 1) + 1: where the next "#@" at or after i starts, 0 for none
NextDelim(s, i) ==
    IF \E j \in i..(Len(s) - 1) : DelimAt(s, j)
    THEN CHOOSE j \in i..(Len(s) - 1) :
            DelimAt(s, j) /\ \A k \in i..(j - 1) : ~DelimAt(s, k)
    ELSE 0

\* s.split('#@'): cut at the next delimiter, go on after it
RECURSIVE SplitFrom(_, _)
SplitFrom(s, i) ==
    LET j == NextDelim(s, i) IN
    IF j = 0 THEN << SubSeq(s, i, Len(s)) >>
    ELSE << SubSeq(s, i, j - 1) >> \o SplitFrom(s, j + 2)

Split(s) == SplitFrom(s, 1)

-----------------------------------------------------------------------------
(* Identifier normalizer: src/patent_pdf_downloader.py *)

\* normalize_rgst_no with the two paddings exchanged
normalize_rgst_no_swapped(rgst_no) ==
    LET stripped == RemoveHyphens(rgst_no) IN
    IF Len(stripped) = ShortLen THEN stripped \o << "0", "0", "0" >>
    ELSE IF Len(stripped) = MidLen THEN stripped \o << "0", "0", "0", "0" >>
    ELSE stripped

\* normalize_rgst_no that also pads 8 characters, by one
normalize_rgst_no_pad8(rgst_no) ==
    LET stripped == RemoveHyphens(rgst_no) IN
    IF Len(stripped) = ShortLen - 1 THEN stripped \o << "0" >>
    ELSE IF Len(stripped) = ShortLen THEN stripped \o << "0", "0", "0", "0" >>
    ELSE IF Len(stripped) = MidLen THEN stripped \o << "0", "0", "0" >>
    ELSE stripped

normalize_rgst_no(rgst_no) ==
    LET stripped == RemoveHyphens(rgst_no) IN
    IF Len(stripped) = ShortLen THEN stripped \o << "0", "0", "0", "0" >>
    ELSE IF Len(stripped) = MidLen THEN stripped \o << "0", "0", "0" >>
    ELSE stripped

normalize_appl_no(raw) == RemoveHyphens(raw)

\* is_application_number raises: year_part.isdigit() holds and int(year_part)
\* raises ValueError
is_application_number_raises(number) ==
    LET stripped == RemoveHyphens(number)
        year_part == Slice(stripped, 2, 6)
    IN  /\ Len(stripped) >= CanonicalLen
        /\ IsDigitStr(year_part)
        /\ int_raises(year_part)

\* the value is_application_number returns when it does not raise
is_application_number(number) ==
    LET stripped == RemoveHyphens(number)
        year_part == Slice(stripped, 2, 6)
    IN  /\ Len(stripped) >= CanonicalLen
        /\ IsDigitStr(year_part)
        /\ ~int_raises(year_part)
        /\ YearLo <= ToInt(year_part)
        /\ ToInt(year_part) <= YearHi

\* format_display_number that keeps the trailing digits of a registration number
format_display_number_keep(id) ==
    IF is_application_number(id)
    THEN Slice(id, 0, 2) \o << "-" >> \o Slice(id, 2, 6) \o << "-" >> \o SliceFrom(id, 6)
    ELSE Slice(id, 0, 2) \o << "-" >> \o SliceFrom(id, 2)

\* the value format_display_number returns when is_application_number does
\* not raise
format_display_number(id) ==
    IF is_application_number(id)
    THEN Slice(id, 0, 2) \o << "-" >> \o Slice(id, 2, 6) \o << "-" >> \o SliceFrom(id, 6)
    ELSE Slice(id, 0, 2) \o << "-" >> \o Slice(id, 2, 9)

-----------------------------------------------------------------------------
(* Extractor: src/patent_pdf_downloader.py *)

\* A page body is [blocks |-> the ls_arg[n] assignment blocks in order of
\* appearance, each the sequence of its chained quoted values,
\* ov |-> the optional captures of popupForm.arg44/45/46.value].
parse_pdf_data(html) ==
    [ b \in 1..Len(html.blocks) |-> Delim \o Join(html.blocks[b], Delim) ]

OrEmpty(capture) == IF capture = << >> THEN EmptyStr ELSE capture[1]

parse_additional_params(html) ==
    [ arg44 |-> OrEmpty(html.ov.arg44),
      arg45 |-> OrEmpty(html.ov.arg45),
      arg46 |-> OrEmpty(html.ov.arg46) ]

-----------------------------------------------------------------------------
(* Parameter mapper and endpoint selector *)

\* build_payload with field 43 copied into arg47 (the skip "fixed")
build_payload_noskip(arr, add) ==
    [ k \in 1..47 |->
        IF k <= 43 THEN (IF Len(arr) > k - 1 THEN At(arr, k - 1) ELSE EmptyStr)
        ELSE IF k = 44 THEN add.arg44
        ELSE IF k = 45 THEN add.arg45
        ELSE IF k = 46 THEN add.arg46
        ELSE (IF Len(arr) > 43 THEN At(arr, 43) ELSE EmptyStr) ]

build_payload(arr, add) ==
    << IF Len(arr) > 0 THEN At(arr, 0) ELSE EmptyStr,
       IF Len(arr) > 1 THEN At(arr, 1) ELSE EmptyStr,
       IF Len(arr) > 2 THEN At(arr, 2) ELSE EmptyStr,
       IF Len(arr) > 3 THEN At(arr, 3) ELSE EmptyStr,
       IF Len(arr) > 4 THEN At(arr, 4) ELSE EmptyStr,
       IF Len(arr) > 5 THEN At(arr, 5) ELSE EmptyStr,
       IF Len(arr) > 6 THEN At(arr, 6) ELSE EmptyStr,
       IF Len(arr) > 7 THEN At(arr, 7) ELSE EmptyStr,
       IF Len(arr) > 8 THEN At(arr, 8) ELSE EmptyStr,
       IF Len(arr) > 9 THEN At(arr, 9) ELSE EmptyStr,
       IF Len(arr) > 10 THEN At(arr, 10) ELSE EmptyStr,
       IF Len(arr) > 11 THEN At(arr, 11) ELSE EmptyStr,
       IF Len(arr) > 12 THEN At(arr, 12) ELSE EmptyStr,
       IF Len(arr) > 13 THEN At(arr, 13) ELSE EmptyStr,
       IF Len(arr) > 14 THEN At(arr, 14) ELSE EmptyStr,
       IF Len(arr) > 15 THEN At(arr, 15) ELSE EmptyStr,
       IF Len(arr) > 16 THEN At(arr, 16) ELSE EmptyStr,
       IF Len(arr) > 17 THEN At(arr, 17) ELSE EmptyStr,
       IF Len(arr) > 18 THEN At(arr, 18) ELSE EmptyStr,
       IF Len(arr) > 19 THEN At(arr, 19) ELSE EmptyStr,
       IF Len(arr) > 20 THEN At(arr, 20) ELSE EmptyStr,
       IF Len(arr) > 21 THEN At(arr, 21) ELSE EmptyStr,
       IF Len(arr) > 22 THEN At(arr, 22) ELSE EmptyStr,
       IF Len(arr) > 23 THEN At(arr, 23) ELSE EmptyStr,
       IF Len(arr) > 24 THEN At(arr, 24) ELSE EmptyStr,
       IF Len(arr) > 25 THEN At(arr, 25) ELSE EmptyStr,
       IF Len(arr) > 26 THEN At(arr, 26) ELSE EmptyStr,
       IF Len(arr) > 27 THEN At(arr, 27) ELSE EmptyStr,
       IF Len(arr) > 28 THEN At(arr, 28) ELSE EmptyStr,
       IF Len(arr) > 29 THEN At(arr, 29) ELSE EmptyStr,
       IF Len(arr) > 30 THEN At(arr, 30) ELSE EmptyStr,
       IF Len(arr) > 31 THEN At(arr, 31) ELSE EmptyStr,
       IF Len(arr) > 32 THEN At(arr, 32) ELSE EmptyStr,
       IF Len(arr) > 33 THEN At(arr, 33) ELSE EmptyStr,
       IF Len(arr) > 34 THEN At(arr, 34) ELSE EmptyStr,
       IF Len(arr) > 35 THEN At(arr, 35) ELSE EmptyStr,
       IF Len(arr) > 36 THEN At(arr, 36) ELSE EmptyStr,
       IF Len(arr) > 37 THEN At(arr, 37) ELSE EmptyStr,
       IF Len(arr) > 38 THEN At(arr, 38) ELSE EmptyStr,
       IF Len(arr) > 39 THEN At(arr, 39) ELSE EmptyStr,
       IF Len(arr) > 40 THEN At(arr, 40) ELSE EmptyStr,
       IF Len(arr) > 41 THEN At(arr, 41) ELSE EmptyStr,
       IF Len(arr) > 42 THEN At(arr, 42) ELSE EmptyStr,
       add.arg44,
       add.arg45,
       add.arg46,
       IF Len(arr) > 44 THEN At(arr, 44) ELSE EmptyStr >>

\* the inline mapping with field 43 copied into arg47
inline_payload_noskip(arr, arg44, arg45, arg46) ==
    build_payload_noskip(arr, [ arg44 |-> arg44, arg45 |-> arg45, arg46 |-> arg46 ])

inline_payload(arr, arg44, arg45, arg46) ==
    << IF Len(arr) > 0 THEN At(arr, 0) ELSE EmptyStr,
       IF Len(arr) > 1 THEN At(arr, 1) ELSE EmptyStr,
       IF Len(arr) > 2 THEN At(arr, 2) ELSE EmptyStr,
       IF Len(arr) > 3 THEN At(arr, 3) ELSE EmptyStr,
       IF Len(arr) > 4 THEN At(arr, 4) ELSE EmptyStr,
       IF Len(arr) > 5 THEN At(arr, 5) ELSE EmptyStr,
       IF Len(arr) > 6 THEN At(arr, 6) ELSE EmptyStr,
       IF Len(arr) > 7 THEN At(arr, 7) ELSE EmptyStr,
       IF Len(arr) > 8 THEN At(arr, 8) ELSE EmptyStr,
       IF Len(arr) > 9 THEN At(arr, 9) ELSE EmptyStr,
       IF Len(arr) > 10 THEN At(arr, 10) ELSE EmptyStr,
       IF Len(arr) > 11 THEN At(arr, 11) ELSE EmptyStr,
       IF Len(arr) > 12 THEN At(arr, 12) ELSE EmptyStr,
       IF Len(arr) > 13 THEN At(arr, 13) ELSE EmptyStr,
       IF Len(arr) > 14 THEN At(arr, 14) ELSE EmptyStr,
       IF Len(arr) > 15 THEN At(arr, 15) ELSE EmptyStr,
       IF Len(arr) > 16 THEN At(arr, 16) ELSE EmptyStr,
       IF Len(arr) > 17 THEN At(arr, 17) ELSE EmptyStr,
       IF Len(arr) > 18 THEN At(arr, 18) ELSE EmptyStr,
       IF Len(arr) > 19 THEN At(arr, 19) ELSE EmptyStr,
       IF Len(arr) > 20 THEN At(arr, 20) ELSE EmptyStr,
       IF Len(arr) > 21 THEN At(arr, 21) ELSE EmptyStr,
       IF Len(arr) > 22 THEN At(arr, 22) ELSE EmptyStr,
       IF Len(arr) > 23 THEN At(arr, 23) ELSE EmptyStr,
       IF Len(arr) > 24 THEN At(arr, 24) ELSE EmptyStr,
       IF Len(arr) > 25 THEN At(arr, 25) ELSE EmptyStr,
       IF Len(arr) > 26 THEN At(arr, 26) ELSE EmptyStr,
       IF Len(arr) > 27 THEN At(arr, 27) ELSE EmptyStr,
       IF Len(arr) > 28 THEN At(arr, 28) ELSE EmptyStr,
       IF Len(arr) > 29 THEN At(arr, 29) ELSE EmptyStr,
       IF Len(arr) > 30 THEN At(arr, 30) ELSE EmptyStr,
       IF Len(arr) > 31 THEN At(arr, 31) ELSE EmptyStr,
       IF Len(arr) > 32 THEN At(arr, 32) ELSE EmptyStr,
       IF Len(arr) > 33 THEN At(arr, 33) ELSE EmptyStr,
       IF Len(arr) > 34 THEN At(arr, 34) ELSE EmptyStr,
       IF Len(arr) > 35 THEN At(arr, 35) ELSE EmptyStr,
       IF Len(arr) > 36 THEN At(arr, 36) ELSE EmptyStr,
       IF Len(arr) > 37 THEN At(arr, 37) ELSE EmptyStr,
       IF Len(arr) > 38 THEN At(arr, 38) ELSE EmptyStr,
       IF Len(arr) > 39 THEN At(arr, 39) ELSE EmptyStr,
       IF Len(arr) > 40 THEN At(arr, 40) ELSE EmptyStr,
       IF Len(arr) > 41 THEN At(arr, 41) ELSE EmptyStr,
       IF Len(arr) > 42 THEN At(arr, 42) ELSE EmptyStr,
       arg44,
       arg45,
       arg46,
       IF Len(arr) > 44 THEN At(arr, 44) ELSE EmptyStr >>

Res2 == "/smart/jsp/kiponet/ma/infomodifypatent/ReadAnnualRgstFeeRes2.do"
Res4 == "/smart/jsp/kiponet/ma/infomodifypatent/ReadAnnualRgstFeeRes4.do"

\* the selection reading arg3 where it should read arg4
select_url_arg3(p) == IF StartsWith(p[3], "4") THEN Res4 ELSE Res2

\* rgst_no_value = payload.get('arg4', ''); startswith('4') chooses Res4
select_url(p) == IF StartsWith(p[4], "4") THEN Res4 ELSE Res2

\* download_annual_rgst_pdf repeats the selection on its own payload
inline_select_url(p) == IF StartsWith(p[4], "4") THEN Res4 ELSE Res2

\* list[k] of Python: << v >>, or << >> where it raises IndexError
PyIndex(list, k) ==
    IF 0 <= k /\ k < Len(list) THEN << list[k + 1] >>
    ELSE IF k < 0 /\ 0 - Len(list) <= k THEN << list[Len(list) + k + 1] >>
    ELSE << >>

-----------------------------------------------------------------------------
(* Inputs and collaborator responses *)

RegInput   == << " ", "1", "0", "-", "2", "3", "1", "2", "9", "0", "7", " " >>
ApplInput  == << "1", "0", "-", "2", "0", "2", "0", "-", "0", "0", "1", "2", "3", "4", "5" >>
BadInput   == << "a", "b" >>

\* '10' + SUPERSCRIPT TWO + '0200012345': thirteen characters, none a hyphen
SupInput   == << "1", "0", Sup2, "0", "2", "0", "0", "0", "1", "2", "3", "4", "5" >>

InputIds == { EmptyStr, RegInput, ApplInput, BadInput }

\* what a client may post as rgst_no to /api/check and /api/download
WebInputIds == InputIds \cup { SupInput }

BatchLists ==
    UNION { [1..n -> InputIds] : n \in 0..MaxBatch }
        \cup { << SupInput >>, << SupInput, RegInput >> }

KnxValues == (0 - MaxBlocks - 1)..MaxBlocks

\* what session.get / session.post / raise_for_status raise: both are
\* requests.RequestException
NetFail == { "ConnectionError", "HTTPError" }

LabelRgst == << "1", "0", "-", "2", "3", "0", "6", "1", "4", "4", "-", "0", "0", "-", "0", "0" >>
VarRgst   == << "1", "0", "2", "3", "0", "6", "1", "4", "4" >>
KvRgst    == << "1", "0", "2", "3", "0", "6", "1", "4", "4", "0", "0", "0", "0" >>

\* bodies of the application-lookup response, by what the three patterns of
\* get_rgst_no_from_appl_no capture in them
LookupBodies ==
    [ label   : { << >>, << LabelRgst >> },
      vRgstNo : { << >>, << EmptyStr >>, << VarRgst >> },
      rgstNo  : { << >>, << KvRgst >> } ]

PageRgst == << "1", "0", "2", "3", "1", "2", "9", "0", "7", "0", "0", "0", "0" >>
FeeStart == << "0", "5" >>

\* bodies of the first response of get_registration_page, by the captures
\* of var vRgstNo / var vFeeStartAnn
InfoBodies ==
    { [ vRgstNo |-> << >>, vFeeStartAnn |-> << >> ],
      [ vRgstNo |-> << PageRgst >>, vFeeStartAnn |-> << FeeStart >> ] }

\* the value chained at position i of a block: two digits naming i
Tag(i) == << Digits[(i \div 10) + 1], Digits[(i % 10) + 1] >>

Sel4 == << "4", "0" >>
Sel1 == << "1", "0" >>

\* the b-th block of a page: n chained values, the 3rd (record field 3) is
\* sel, the 1st names the block
Block(n, sel, b) ==
    [ i \in 1..n |-> IF i = 3 THEN sel ELSE IF i = 1 THEN Tag(b) ELSE Tag(i) ]

\* what the blocks of one page look like: the page's template chains the
\* same number of values in each of them
Shapes == { << 0, Sel1 >>, << 3, Sel4 >>, << 45, Sel1 >> }

BlockLists ==
    { [ b \in 1..n |-> Block(sh[1], sh[2], b) ] : n \in 0..MaxBlocks, sh \in Shapes }

Title == << "T" >>

Overrides ==
    { [ arg44 |-> << >>, arg45 |-> << >>, arg46 |-> << >> ],
      [ arg44 |-> << FeeStart >>, arg45 |-> << Title >>, arg46 |-> << EmptyStr >> ] }

Pages == [ blocks : BlockLists, ov : Overrides ]

\* the body of a submission response
Docs == { "html" }

\* what the inner try of the web handlers does: it completes, or
\* response.content.decode raises, or pdfkit.from_string raises
RenderRuns == { "ok", "decode_raises", "pdfkit_raises" }

PdfExt  == << ".", "p", "d", "f" >>
HtmlExt == << ".", "h", "t", "m", "l" >>
CliPrefix == << "notice_" >>

NoAdditional == [ arg44 |-> EmptyStr, arg45 |-> EmptyStr, arg46 |-> EmptyStr ]

-----------------------------------------------------------------------------
(* Results *)

Result(ok, err, cause, name) ==
    [ success |-> ok, error |-> err, cause |-> cause, name |-> name ]

Entry(id, ok, err, cause, title) ==
    [ rgst_no |-> id, success |-> ok, error |-> err, cause |-> cause, title |-> title ]

\* the locals of one pipeline run as one value
Cur ==
    [ appl_no |-> appl_no, normalized |-> normalized, response1 |-> response1,
      post_data |-> post_data, html_source |-> html_source,
      data_list |-> data_list, additional |-> additional, ls_arr |-> ls_arr,
      payload |-> payload, url_path |-> url_path, response |-> response ]

\* the locals before a run assigns them
Fresh ==
    [ appl_no |-> EmptyStr, normalized |-> EmptyStr, response1 |-> << >>,
      post_data |-> << >>, html_source |-> << >>,
      data_list |-> << >>, additional |-> NoAdditional, ls_arr |-> << >>,
      payload |-> << >>, url_path |-> "", response |-> "" ]

SetLocals(loc) ==
    /\ appl_no' = loc.appl_no
    /\ normalized' = loc.normalized
    /\ response1' = loc.response1
    /\ post_data' = loc.post_data
    /\ html_source' = loc.html_source
    /\ data_list' = loc.data_list
    /\ additional' = loc.additional
    /\ ls_arr' = loc.ls_arr
    /\ payload' = loc.payload
    /\ url_path' = loc.url_path
    /\ response' = loc.response

\* the handler goes on to position p with locals loc
Goto(p, loc) ==
    /\ pc' = p
    /\ SetLocals(loc)
    /\ UNCHANGED << outcome, results, idx >>

\* the handler returns o
Return(o, loc) ==
    /\ outcome' = << o >>
    /\ pc' = "done"
    /\ SetLocals(loc)
    /\ UNCHANGED << results, idx >>

\* a batch loop that a failed entry ends
BatchRecord_abort(r) ==
    /\ results' = Append(results, r)
    /\ idx' = IF r.success THEN idx + 1 ELSE Len(rgst_numbers) + 1
    /\ pc' = "batch_next"
    /\ SetLocals(Fresh)
    /\ UNCHANGED outcome

\* download_batch appends r and goes on with the next list entry; the locals
\* of the iteration are dead from here on (the next iteration assigns each
\* of them before it reads it)
BatchRecord(r) ==
    /\ results' = Append(results, r)
    /\ idx' = idx + 1
    /\ pc' = "batch_next"
    /\ SetLocals(Fresh)
    /\ UNCHANGED outcome

\* a handler that swallows the exception and goes on with the next step
NetworkFailure_swallowed(stage, e, loc) ==
    Goto(IF stage = "page" THEN "page_post" ELSE "render", loc)

\* a handler that issues the failed call again
NetworkFailure_retry(stage, e, loc) ==
    Goto(IF stage = "page" THEN "page_get" ELSE "submit", loc)

\* a requests.RequestException e leaves the record-page fetch or the submission
NetworkFailure(stage, e, loc) ==
    CASE mode = "fetch" ->
            Return(Result(FALSE, "raised", e, EmptyStr), loc)
      [] mode = "check" ->
            Return(Result(FALSE, "server_conn_failed", e, EmptyStr), loc)
      [] mode = "download" ->
            Return(Result(FALSE, "download_failed", e, EmptyStr), loc)
      [] mode = "batch" ->
            BatchRecord(Entry(input_no, FALSE, "str_e", e, EmptyStr))
      [] mode = "cli" ->
            Return(Result(FALSE,
                          IF stage = "page" THEN "page_fetch_failed"
                                            ELSE "pdf_download_failed",
                          e, EmptyStr), loc)

\* any other exception reaches the handler's except Exception, or, in
\* download_by_rgst_no, nothing at all
OtherFailure(e, loc) ==
    CASE mode = "batch" -> BatchRecord(Entry(input_no, FALSE, "str_e", e, EmptyStr))
      [] mode = "cli"   -> Return(Result(FALSE, "uncaught", e, EmptyStr), loc)
      [] OTHER          -> Return(Result(FALSE, "error_occurred", e, EmptyStr), loc)

LookupNotFound(loc) ==
    CASE mode = "batch" ->
            BatchRecord(Entry(input_no, FALSE, "no_reg_info", "", EmptyStr))
      [] OTHER ->
            Return(Result(FALSE, "lookup_not_found", "", EmptyStr), loc)

\* a handler without its empty-list test: data_list[0] raises
NoData_unchecked(loc) == OtherFailure("IndexError", loc)

NoData(loc) ==
    CASE mode = "batch" -> BatchRecord(Entry(input_no, FALSE, "no_data", "", EmptyStr))
      [] mode = "cli"   -> Return(Result(FALSE, "pdf_data_not_found", "", EmptyStr), loc)
      [] OTHER          -> Return(Result(FALSE, "notice_not_found", "", EmptyStr), loc)

IndexOutOfRange(loc) == Return(Result(FALSE, "no_index", "", EmptyStr), loc)

-----------------------------------------------------------------------------
(* State *)

Init ==
    /\ mode = "idle"
    /\ pc = "idle"
    /\ rgst_numbers = << >>
    /\ idx = 0
    /\ input_no = EmptyStr
    /\ knx = 0
    /\ appl_no = EmptyStr
    /\ normalized = EmptyStr
    /\ response1 = << >>
    /\ post_data = << >>
    /\ html_source = << >>
    /\ data_list = << >>
    /\ additional = NoAdditional
    /\ ls_arr = << >>
    /\ payload = << >>
    /\ url_path = ""
    /\ response = ""
    /\ results = << >>
    /\ zip_file = << >>
    /\ written = << >>
    /\ output_filename = << >>
    /\ outcome = << >>
    /\ steps = << >>

\* the branch on is_application_number shared by the three web handlers:
\* route an application number to the lookup, normalize anything else
Classify(id) ==
    IF is_application_number_raises(RemoveHyphens(id))
    THEN IF mode = "batch"
         THEN BatchRecord(Entry(id, FALSE, "str_e", "ValueError", EmptyStr))
         ELSE Return(Result(FALSE, "error_occurred", "ValueError", EmptyStr), Fresh)
    ELSE IF is_application_number(RemoveHyphens(id))
    THEN Goto("lookup", [ Fresh EXCEPT !.appl_no = normalize_appl_no(id) ])
    ELSE Goto("page_get", [ Fresh EXCEPT !.normalized = normalize_rgst_no(id) ])

-----------------------------------------------------------------------------
(* Collaborator responses: a call raises err, or returns body *)

Responses(Bodies) ==
    { [ err |-> e, body |-> << >> ] : e \in NetFail }
        \cup { [ err |-> "", body |-> << b >> ] : b \in Bodies }

\* steps after network call `call` got resp
Called(call, resp) ==
    IF resp.err # "" THEN steps \o << call, "net_fail" >> ELSE Append(steps, call)

\* what the record-page POST and parse_pdf_data add to steps
Extracted(dl) ==
    << "page_post", IF dl = << >> THEN "extract_empty" ELSE "extract" >>

-----------------------------------------------------------------------------
(* Entry points *)

\* /api/check without its test for an empty number
CheckStart_unchecked(raw) ==
    /\ pc = "idle"
    /\ mode' = "check"
    /\ input_no' = Strip(raw)
    /\ Classify(Strip(raw))
    /\ steps' = << "classify" >>
    /\ UNCHANGED << rgst_numbers, knx, zip_file, written, output_filename >>

\* /api/check up to its first network call
CheckStart(raw) ==
    /\ pc = "idle"
    /\ mode' = "check"
    /\ input_no' = Strip(raw)
    /\ IF Strip(raw) = EmptyStr
       THEN /\ Return(Result(FALSE, "enter_number", "", EmptyStr), Cur)
            /\ steps' = << >>
       ELSE /\ Classify(Strip(raw))
            /\ steps' = << "classify" >>
    /\ UNCHANGED << rgst_numbers, knx, zip_file, written, output_filename >>

\* /api/download up to its first network call
DownloadStart(raw, k) ==
    /\ pc = "idle"
    /\ mode' = "download"
    /\ input_no' = Strip(raw)
    /\ knx' = k
    /\ IF Strip(raw) = EmptyStr
       THEN /\ Return(Result(FALSE, "enter_number", "", EmptyStr), Cur)
            /\ steps' = << >>
       ELSE /\ Classify(Strip(raw))
            /\ steps' = << "classify" >>
    /\ UNCHANGED << rgst_numbers, zip_file, written, output_filename >>

\* /api/download-batch up to the loop
BatchStart(list) ==
    /\ pc = "idle"
    /\ mode' = "batch"
    /\ rgst_numbers' = list
    /\ IF list = << >>
       THEN Return(Result(FALSE, "empty_list", "", EmptyStr), Cur)
       ELSE /\ pc' = "batch_next"
            /\ idx' = 1
            /\ results' = << >>
            /\ SetLocals(Cur)
            /\ UNCHANGED outcome
    /\ UNCHANGED << input_no, knx, zip_file, written, output_filename, steps >>

\* the head of the loop of download_batch, and what follows the loop
BatchNext ==
    /\ pc = "batch_next"
    /\ IF idx > Len(rgst_numbers)
       THEN /\ IF \E i \in 1..Len(results) : results[i].success
               THEN Return(Result(TRUE, "", "", << "zip" >>), Cur)
               ELSE Return(Result(FALSE, "all_failed", "", EmptyStr), Cur)
            /\ UNCHANGED << input_no, steps >>
       ELSE /\ input_no' = Strip(rgst_numbers[idx])
            /\ IF Strip(rgst_numbers[idx]) = EmptyStr
               THEN /\ idx' = idx + 1
                    /\ pc' = "batch_next"
                    /\ steps' = << >>
                    /\ SetLocals(Cur)
                    /\ UNCHANGED << outcome, results >>
               ELSE /\ Classify(Strip(rgst_numbers[idx]))
                    /\ steps' = << "classify" >>
    /\ UNCHANGED << mode, rgst_numbers, knx, zip_file, written, output_filename >>

\* download_by_rgst_no up to its first network call; out is << >> for
\* output_filename=None
CliStart(raw, k, out) ==
    /\ pc = "idle"
    /\ mode' = "cli"
    /\ input_no' = raw
    /\ knx' = k
    /\ output_filename' = out
    /\ Goto("page_get", [ Fresh EXCEPT !.normalized = normalize_rgst_no(raw) ])
    /\ steps' = << >>
    /\ UNCHANGED << rgst_numbers, zip_file, written >>

-----------------------------------------------------------------------------
(* Page fetcher *)

\* the value get_rgst_no_from_appl_no returns: << >> for None
get_rgst_no_from_appl_no(resp) ==
    IF resp.err # "" THEN << >>
    ELSE LET body == resp.body[1] IN
         IF body.label # << >> THEN << normalize_rgst_no(body.label[1]) >>
         ELSE IF body.vRgstNo # << >> /\ body.vRgstNo[1] # EmptyStr
              THEN << normalize_rgst_no(body.vRgstNo[1]) >>
         ELSE IF body.rgstNo # << >> THEN << body.rgstNo[1] >>
         ELSE << >>

\* the lookup GET and the caller's `if not rgst_no`
LookupGet ==
    /\ pc = "lookup"
    /\ \E resp \in Responses(LookupBodies) :
          LET rgst_no == get_rgst_no_from_appl_no(resp) IN
          /\ steps' = Called("lookup_get", resp)
          /\ IF rgst_no = << >> \/ rgst_no[1] = EmptyStr
             THEN LookupNotFound(Cur)
             ELSE Goto("page_get", [ Cur EXCEPT !.normalized = rgst_no[1] ])
    /\ UNCHANGED << mode, rgst_numbers, input_no, knx, zip_file, written,
                    output_filename >>

\* bodies of the first response when get_registration_page is called on its
\* own: each variable absent, assigned '', or assigned a value
FetchInfoBodies ==
    [ vRgstNo      : { << >>, << EmptyStr >>, << PageRgst >> },
      vFeeStartAnn : { << >>, << EmptyStr >>, << FeeStart >> } ]

\* the form fields without the fallback to the caller's number
page_form_nofallback(body, rgst_no) ==
    [ rgstNo   |-> IF body.vRgstNo # << >> THEN body.vRgstNo[1] ELSE EmptyStr,
      startAnn |-> IF body.vFeeStartAnn # << >> THEN body.vFeeStartAnn[1]
                                                ELSE EmptyStr ]

\* the form fields get_registration_page builds from its first response
page_form(body, rgst_no) ==
    [ rgstNo   |-> IF body.vRgstNo # << >> THEN body.vRgstNo[1] ELSE rgst_no,
      startAnn |-> IF body.vFeeStartAnn # << >> THEN body.vFeeStartAnn[1]
                                                ELSE EmptyStr ]

\* get_registration_page, STEP 1
PageGet ==
    /\ pc = "page_get"
    /\ \E resp \in Responses(IF mode = "fetch" THEN FetchInfoBodies ELSE InfoBodies) :
          /\ steps' = Called("page_get", resp)
          /\ IF resp.err # ""
             THEN NetworkFailure("page", resp.err, Cur)
             ELSE Goto("page_post",
                       [ Cur EXCEPT !.response1 = resp.body,
                                    !.post_data =
                                       << page_form(resp.body[1], normalized) >> ])
    /\ UNCHANGED << mode, rgst_numbers, input_no, knx, zip_file, written,
                    output_filename >>

-----------------------------------------------------------------------------
(* From the record page to the submission *)

\* get_registration_page has returned: its frame, response1 and post_data
\* with it, is gone
Back == [ Cur EXCEPT !.response1 = << >>, !.post_data = << >> ]

\* a mapping step that refuses a record of fewer than 4 fields
MapAndSelect_validating(rec, dl, add, inline) ==
    LET arr == Split(rec)
        p   == IF inline
               THEN inline_payload(arr, add.arg44, add.arg45, add.arg46)
               ELSE build_payload(arr, add)
    IN  IF Len(arr) < 4
        THEN /\ NoData([ Back EXCEPT !.data_list = dl, !.additional = add ])
             /\ steps' = steps \o Extracted(dl)
        ELSE /\ Goto("submit",
                     [ Back EXCEPT !.data_list = dl, !.additional = add, !.ls_arr = arr,
                                   !.payload = p,
                                   !.url_path = IF inline THEN inline_select_url(p)
                                                          ELSE select_url(p) ])
             /\ steps' = steps \o Extracted(dl) \o << "map", "select" >>

\* split the chosen record, build the 47 slots, choose the endpoint
MapAndSelect(rec, dl, add, inline) ==
    LET arr == Split(rec)
        p   == IF inline
               THEN inline_payload(arr, add.arg44, add.arg45, add.arg46)
               ELSE build_payload(arr, add)
    IN  /\ Goto("submit",
                [ Back EXCEPT !.data_list = dl, !.additional = add, !.ls_arr = arr,
                              !.payload = p,
                              !.url_path = IF inline THEN inline_select_url(p)
                                                     ELSE select_url(p) ])
        /\ steps' = steps \o Extracted(dl) \o << "map", "select" >>

\* the default file name of download_by_rgst_no
cli_filename(rec, norm) ==
    LET arr  == Split(rec)
        appl == IF Len(arr) > 44 THEN At(arr, 44) ELSE EmptyStr
    IN  IF appl # EmptyStr /\ is_application_number(appl)
        THEN CliPrefix \o format_display_number(normalize_appl_no(appl)) \o PdfExt
        ELSE CliPrefix \o format_display_number(norm) \o PdfExt

\* get_registration_page called on its own returns response2.text; its
\* locals stay in view
AfterPageFetch(html) ==
    /\ steps' = Append(steps, "page_post")
    /\ Return(Result(TRUE, "", "", EmptyStr), [ Cur EXCEPT !.html_source = << html >> ])
    /\ UNCHANGED output_filename

\* check_registration after get_registration_page returned html
AfterPageCheck(html) ==
    LET dl  == parse_pdf_data(html)
        loc == [ Back EXCEPT !.data_list = dl,
                             !.additional = parse_additional_params(html) ]
    IN  /\ steps' = steps \o Extracted(dl)
        /\ IF dl = << >>
           THEN NoData(loc)
           ELSE Return(Result(TRUE, "", "", format_display_number(normalized)), loc)
        /\ UNCHANGED output_filename

\* download_pdf after get_registration_page returned html
AfterPageDownload(html) ==
    LET dl  == parse_pdf_data(html)
        add == parse_additional_params(html)
        loc == [ Back EXCEPT !.data_list = dl, !.additional = add ]
    IN  /\ IF dl = << >>
           THEN NoData(loc) /\ steps' = steps \o Extracted(dl)
           ELSE IF knx >= Len(dl)
           THEN IndexOutOfRange(loc) /\ steps' = steps \o Extracted(dl)
           ELSE IF PyIndex(dl, knx) = << >>
           THEN /\ OtherFailure("IndexError", loc)
                /\ steps' = steps \o Extracted(dl)
           ELSE MapAndSelect(PyIndex(dl, knx)[1], dl, add, FALSE)
        /\ UNCHANGED output_filename

\* download_batch after get_registration_page returned html
AfterPageBatch(html) ==
    LET dl  == parse_pdf_data(html)
        add == parse_additional_params(html)
        loc == [ Back EXCEPT !.data_list = dl, !.additional = add ]
    IN  /\ IF dl = << >>
           THEN NoData(loc) /\ steps' = steps \o Extracted(dl)
           ELSE MapAndSelect(PyIndex(dl, 0)[1], dl, add, FALSE)
        /\ UNCHANGED output_filename

\* download_by_rgst_no after get_registration_page returned html, and
\* download_annual_rgst_pdf up to its POST
AfterPageCli(html) ==
    LET dl  == parse_pdf_data(html)
        add == parse_additional_params(html)
        loc == [ Back EXCEPT !.data_list = dl ]
    IN  IF dl = << >>
        THEN /\ NoData(loc)
             /\ steps' = steps \o Extracted(dl)
             /\ UNCHANGED output_filename
        ELSE IF knx >= Len(dl)
        THEN /\ IndexOutOfRange(loc)
             /\ steps' = steps \o Extracted(dl)
             /\ UNCHANGED output_filename
        ELSE IF PyIndex(dl, knx) = << >>
        THEN /\ OtherFailure("IndexError", [ loc EXCEPT !.additional = add ])
             /\ steps' = steps \o Extracted(dl)
             /\ UNCHANGED output_filename
        ELSE /\ output_filename' =
                   IF output_filename = << >>
                   THEN << cli_filename(PyIndex(dl, knx)[1], normalized) >>
                   ELSE output_filename
             /\ MapAndSelect(PyIndex(dl, knx)[1], dl, add, TRUE)

\* get_registration_page, STEP 2, and the handler up to the submission
PagePost ==
    /\ pc = "page_post"
    /\ \E resp \in Responses(Pages) :
          IF resp.err # ""
          THEN /\ NetworkFailure("page", resp.err, IF mode = "fetch" THEN Cur ELSE Back)
               /\ steps' = Called("page_post", resp)
               /\ UNCHANGED output_filename
          ELSE CASE mode = "fetch"    -> AfterPageFetch(resp.body[1])
                 [] mode = "check"    -> AfterPageCheck(resp.body[1])
                 [] mode = "download" -> AfterPageDownload(resp.body[1])
                 [] mode = "batch"    -> AfterPageBatch(resp.body[1])
                 [] mode = "cli"      -> AfterPageCli(resp.body[1])
    /\ UNCHANGED << mode, rgst_numbers, input_no, knx, zip_file, written >>

-----------------------------------------------------------------------------
(* Submission and rendering *)

\* session.post(full_url, data=payload) and raise_for_status; the CLI then
\* writes the body to output_filename
SubmitPost ==
    /\ pc = "submit"
    /\ \E resp \in Responses(Docs) :
          /\ steps' = Called("submit_post", resp)
          /\ IF resp.err # ""
             THEN /\ NetworkFailure("submit", resp.err, Cur)
                  /\ UNCHANGED written
             ELSE IF mode = "cli"
             THEN /\ written' = Append(written, output_filename[1])
                  /\ Return(Result(TRUE, "", "", output_filename[1]),
                            [ Cur EXCEPT !.response = resp.body[1] ])
             ELSE /\ Goto("render", [ Cur EXCEPT !.response = resp.body[1] ])
                  /\ UNCHANGED written
    /\ UNCHANGED << mode, rgst_numbers, input_no, knx, zip_file, output_filename >>

\* src="/smart/ and href="/smart/ made absolute
absolutize(doc) == IF doc = "html" THEN "html_absolute" ELSE doc

\* what the inner try raises: the decode of the body, or pdfkit
render_error(rend) ==
    IF rend = "decode_raises" THEN "UnicodeDecodeError"
    ELSE IF rend = "pdfkit_raises" THEN "OSError"
    ELSE ""

\* the inner try of download_pdf
RenderSingle(display_no, err) ==
    /\ IF err = ""
       THEN Return(Result(TRUE, "", "", display_no \o PdfExt), Cur)
       ELSE Return(Result(FALSE, "pdf_convert_failed", err, EmptyStr), Cur)
    /\ UNCHANGED zip_file

\* a batch that reports a success for a failed rendering and stores nothing
RenderBatch_dropped(display_no, err) ==
    /\ zip_file' =
          IF err = ""
          THEN Append(zip_file, [ name |-> display_no \o PdfExt,
                                  content |-> << "pdf", absolutize(response) >> ])
          ELSE zip_file
    /\ BatchRecord(Entry(input_no, TRUE, "", "", additional.arg45))

\* a batch that counts a failed rendering as a failed entry and stores nothing
RenderBatch_nofallback(display_no, err) ==
    /\ zip_file' =
          IF err = ""
          THEN Append(zip_file, [ name |-> display_no \o PdfExt,
                                  content |-> << "pdf", absolutize(response) >> ])
          ELSE zip_file
    /\ BatchRecord(Entry(input_no, err = "", IF err = "" THEN "" ELSE "str_e", err,
                         IF err = "" THEN additional.arg45 ELSE EmptyStr))

\* the inner try of download_batch and the results.append after it: the PDF
\* is made from the rewritten document, the fallback entry is response.content
RenderBatch(display_no, err) ==
    /\ zip_file' =
          IF err = ""
          THEN Append(zip_file, [ name |-> display_no \o PdfExt,
                                  content |-> << "pdf", absolutize(response) >> ])
          ELSE Append(zip_file, [ name |-> display_no \o HtmlExt,
                                  content |-> << "html", response >> ])
    /\ BatchRecord(Entry(input_no, TRUE, "", "", additional.arg45))

\* format_display_number, decode, pdfkit.from_string and what follows
Render ==
    /\ pc = "render"
    /\ \E rend \in RenderRuns :
          LET display_no == format_display_number(normalized)
              err == render_error(rend)
          IN  /\ steps' = IF err = "" THEN Append(steps, "render")
                                      ELSE steps \o << "render", "render_raised" >>
              /\ IF mode = "batch" THEN RenderBatch(display_no, err)
                                   ELSE RenderSingle(display_no, err)
    /\ UNCHANGED << mode, rgst_numbers, input_no, knx, written, output_filename >>

-----------------------------------------------------------------------------
(* Specification of the pipelines *)

Next ==
    \/ \E raw \in WebInputIds : CheckStart(raw)
    \/ \E raw \in WebInputIds, k \in KnxValues : DownloadStart(raw, k)
    \/ \E list \in BatchLists : BatchStart(list)
    \/ BatchNext
    \/ \E raw \in InputIds, k \in KnxValues, out \in { << >>, << << "o" >> >> } :
          CliStart(raw, k, out)
    \/ LookupGet
    \/ PageGet
    \/ PagePost
    \/ SubmitPost
    \/ Render

Spec == Init /\ [][Next]_vars

-----------------------------------------------------------------------------
(* The mapper and the selector on their own, as test_fetch.py calls             *)
(* build_payload: any field list, any override values                           *)

Selectors == { Sel4, Sel1, EmptyStr, << "a", "4" >> }

\* n fields; field i holds the two digits of i, field 3 holds sel
FieldList(n, sel) == [ i \in 1..n |-> IF i = 4 THEN sel ELSE Tag(i - 1) ]

FieldLists == { FieldList(n, sel) : n \in 0..MaxFields, sel \in Selectors }

AdditionalValues ==
    { NoAdditional,
      [ arg44 |-> FeeStart, arg45 |-> Title, arg46 |-> << "x" >> ] }

InitMapper ==
    /\ mode = "unit"
    /\ pc = "unit_input"
    /\ ls_arr \in FieldLists
    /\ additional \in AdditionalValues
    /\ rgst_numbers = << >>
    /\ idx = 0
    /\ input_no = EmptyStr
    /\ knx = 0
    /\ appl_no = EmptyStr
    /\ normalized = EmptyStr
    /\ response1 = << >>
    /\ post_data = << >>
    /\ html_source = << >>
    /\ data_list = << >>
    /\ payload = << >>
    /\ url_path = ""
    /\ response = ""
    /\ results = << >>
    /\ zip_file = << >>
    /\ written = << >>
    /\ output_filename = << >>
    /\ outcome = << >>
    /\ steps = << >>

\* payload = build_payload(ls_arr, additional)
MapCall ==
    /\ pc = "unit_input"
    /\ payload' = build_payload(ls_arr, additional)
    /\ pc' = "unit_mapped"
    /\ steps' = Append(steps, "map")
    /\ UNCHANGED << mode, rgst_numbers, idx, input_no, knx, appl_no, normalized,
                    response1, post_data, html_source, data_list, additional, ls_arr, url_path, response,
                    results, zip_file, written, output_filename, outcome >>

\* the selection that follows the mapping
SelectCall ==
    /\ pc = "unit_mapped"
    /\ url_path' = select_url(payload)
    /\ pc' = "unit_selected"
    /\ steps' = Append(steps, "select")
    /\ UNCHANGED << mode, rgst_numbers, idx, input_no, knx, appl_no, normalized,
                    response1, post_data, html_source, data_list, additional, ls_arr, payload, response,
                    results, zip_file, written, output_filename, outcome >>

\* the payload download_annual_rgst_pdf builds inline
InlineMapCall ==
    /\ pc = "unit_input"
    /\ payload' = inline_payload(ls_arr, additional.arg44, additional.arg45,
                                 additional.arg46)
    /\ pc' = "inline_mapped"
    /\ steps' = Append(steps, "map")
    /\ UNCHANGED << mode, rgst_numbers, idx, input_no, knx, appl_no, normalized,
                    response1, post_data, html_source, data_list, additional,
                    ls_arr, url_path, response, results, zip_file, written,
                    output_filename, outcome >>

\* the selection inside download_annual_rgst_pdf
InlineSelectCall ==
    /\ pc = "inline_mapped"
    /\ url_path' = inline_select_url(payload)
    /\ pc' = "inline_selected"
    /\ steps' = Append(steps, "select")
    /\ UNCHANGED << mode, rgst_numbers, idx, input_no, knx, appl_no, normalized,
                    response1, post_data, html_source, data_list, additional,
                    ls_arr, payload, response, results, zip_file, written,
                    output_filename, outcome >>

NextMapper == MapCall \/ SelectCall \/ InlineMapCall \/ InlineSelectCall

SpecMapper == InitMapper /\ [][NextMapper]_vars

-----------------------------------------------------------------------------
(* Claims *)

\* C1: build_payload returns exactly the 47 slots arg1..arg47; arg(i+1) is
\* field i for i in 0..42 when the field exists and '' otherwise; arg44..46
\* are the three override values whatever the record holds; arg47 is field 44
\* when it exists and '' otherwise; the value of field 43 lands in no slot.
C1_PayloadLayout ==
    pc \in { "unit_mapped", "unit_selected" } =>
        /\ DOMAIN payload = 1..NumArgs
        /\ \A i \in 0..42 :
              payload[i + 1] = IF i < Len(ls_arr) THEN ls_arr[i + 1] ELSE EmptyStr
        /\ payload[44] = additional.arg44
        /\ payload[45] = additional.arg45
        /\ payload[46] = additional.arg46
        /\ payload[47] = IF Len(ls_arr) >= 45 THEN ls_arr[45] ELSE EmptyStr
        /\ Len(ls_arr) >= 44 => \A k \in 1..NumArgs : payload[k] # ls_arr[44]

\* a record of at least 45 fields has been mapped: arg47 holds field 44
C1_Witness ==
    /\ pc = "unit_mapped"
    /\ Len(ls_arr) >= 45
    /\ payload[47] = ls_arr[45]
    /\ payload[47] # ls_arr[44]
    /\ payload[44] = FeeStart

\* C2: the alternate endpoint is chosen exactly when arg4 is non-empty and
\* starts with '4'; otherwise, also for the empty arg4 of a record of fewer
\* than 4 fields, the default one; in download_pdf, download_batch and the CLI.
C2_EndpointIffLeading4 ==
    (mode \in { "download", "batch", "cli" } /\ url_path # "") =>
        /\ url_path \in { Res2, Res4 }
        /\ url_path = Res4 <=> (payload[4] # EmptyStr /\ Head(payload[4]) = "4")
        /\ Len(ls_arr) < 4 => url_path = Res2

\* the CLI path has chosen the alternate endpoint for a record led by '4'
C2_Witness ==
    /\ mode = "cli"
    /\ pc = "submit"
    /\ url_path = Res4
    /\ payload[4] = Sel4

\* the network calls among the steps
NetCalls == { "lookup_get", "page_get", "page_post", "submit_post" }

HasIn(seq, tok) == \E i \in 1..Len(seq) : seq[i] = tok

Has(tok) == HasIn(steps, tok)

NoNetCall == \A i \in 1..Len(steps) : steps[i] \notin NetCalls

PipelineModes == { "check", "download", "batch", "cli" }

\* the run of the current identifier has ended
RunEnded ==
    \/ mode \in { "check", "download", "cli" } /\ pc = "done"
    \/ mode = "batch" /\ pc \in { "batch_next", "done" } /\ steps # << >>

\* what the ended run reported: the handler's result, or the batch's last entry
LastOutcome == IF mode = "batch" THEN results[Len(results)] ELSE outcome[1]

IsInvalidInput(o) == o.error = "enter_number"

IsLookupNotFound(o) == o.error \in { "lookup_not_found", "no_reg_info" }

IsNoRecordData(o) ==
    o.error \in { "notice_not_found", "no_data", "pdf_data_not_found" }

IsIndexOutOfRange(o) == o.error = "no_index"

IsNetworkError(o) ==
    /\ o.error \in { "server_conn_failed", "download_failed", "page_fetch_failed",
                     "pdf_download_failed", "str_e" }
    /\ o.cause \in NetFail

\* the record the run picks from data_list: << >> when there is none
Selected ==
    IF mode = "batch" THEN PyIndex(data_list, 0)
    ELSE IF knx >= Len(data_list) THEN << >>
    ELSE PyIndex(data_list, knx)

ShortSelected ==
    /\ mode \in { "download", "batch", "cli" }
    /\ Selected # << >>
    /\ Len(Split(Selected[1])) < 4

Rank(tok) ==
    CASE tok = "classify"      -> 1
      [] tok = "lookup_get"    -> 2
      [] tok = "page_get"      -> 3
      [] tok = "page_post"     -> 4
      [] tok = "extract"       -> 5
      [] tok = "extract_empty" -> 5
      [] tok = "map"           -> 6
      [] tok = "select"        -> 7
      [] tok = "submit_post"   -> 8
      [] tok = "render"        -> 9
      [] tok = "net_fail"      -> 10
      [] tok = "render_raised" -> 10

\* C4: per identifier the steps come only in the order classify, fetch,
\* extract, then map, select, submit, render; the submission is not issued
\* unless the page was fetched and a record extracted and mapped; rendering
\* follows a submission that did not fail; a failed call is the last step;
\* a handler that returned has exactly one result and takes no further step.
C4_PipelineOrder ==
    mode \in PipelineModes =>
        /\ \A i, j \in 1..Len(steps) : i < j => Rank(steps[i]) < Rank(steps[j])
        /\ Has("page_post") => Has("page_get")
        /\ (Has("extract") \/ Has("extract_empty")) => Has("page_post")
        /\ Has("map") => Has("extract")
        /\ Has("select") => Has("map")
        /\ Has("submit_post") => Has("select")
        /\ Has("render") => Has("submit_post")
        /\ pc = "submit" => (Has("select") /\ payload # << >> /\ url_path # "")
        /\ pc = "render" => (Has("submit_post") /\ ~Has("net_fail") /\ response # "")
        /\ pc = "done" => (Len(outcome) = 1 /\ ~ENABLED Next)
        /\ pc # "done" => outcome = << >>

\* a run that was classified, looked up, fetched, mapped, submitted, rendered
C4_Witness ==
    /\ mode = "download"
    /\ pc = "done"
    /\ steps = << "classify", "lookup_get", "page_get", "page_post", "extract",
                  "map", "select", "submit_post", "render" >>

ResultIds == [ i \in 1..Len(results) |-> results[i].rgst_no ]

\* the first n list entries, stripped, without the empty ones
NonEmptyPrefix(n) ==
    SelectSeq([ i \in 1..n |-> Strip(rgst_numbers[i]) ], LAMBDA id : id # EmptyStr)

\* C5 as claimed: the batch ends with one labeled outcome per list entry,
\* empty entries included, in input order.
C5_OneOutcomePerEntry ==
    (mode = "batch" /\ pc = "done") =>
        /\ Len(results) = Len(rgst_numbers)
        /\ \A i \in 1..Len(results) : results[i].rgst_no = Strip(rgst_numbers[i])

\* C5 as amended: the results hold one labeled outcome per list entry that
\* is non-empty after stripping, in input order (empty entries are skipped
\* and leave no outcome); whatever the outcome of an entry, the loop goes on
\* to the next one and ends only after the last.
C5_OneOutcomePerNonEmptyEntry ==
    (mode = "batch" /\ rgst_numbers # << >>) =>
        /\ idx \in 1..(Len(rgst_numbers) + 1)
        /\ ResultIds = NonEmptyPrefix(idx - 1)
        /\ \A i \in 1..Len(results) : results[i].success \in BOOLEAN
        /\ pc = "done" => idx = Len(rgst_numbers) + 1

\* the first identifier failed, the second was still processed and succeeded
C5_Witness ==
    /\ mode = "batch"
    /\ pc = "done"
    /\ Len(results) = 2
    /\ ~results[1].success
    /\ results[2].success

\* C6: a fetched page with no record ends the run with the no-data result of
\* its entry point, not with a network error, and nothing is mapped or
\* submitted; in check, download, batch and the CLI.
C6_NoRecordData ==
    (mode \in PipelineModes /\ Has("extract_empty")) =>
        /\ RunEnded
        /\ ~LastOutcome.success
        /\ LastOutcome.error =
              CASE mode = "batch" -> "no_data"
                [] mode = "cli"   -> "pdf_data_not_found"
                [] OTHER          -> "notice_not_found"
        /\ IsNoRecordData(LastOutcome)
        /\ ~IsNetworkError(LastOutcome)
        /\ ~Has("net_fail")
        /\ ~Has("map")
        /\ ~Has("submit_post")
        /\ payload = << >>

\* check fetched a page without any ls_arg block
C6_Witness ==
    /\ mode = "check"
    /\ pc = "done"
    /\ Has("extract_empty")
    /\ outcome[1].error = "notice_not_found"

\* C7 as claimed: a run in which a network call raised reports a network
\* error with its cause, never lookup-not-found or no-record-data.
C7_NetworkErrorReported ==
    (mode \in PipelineModes /\ RunEnded /\ Has("net_fail")) =>
        /\ IsNetworkError(LastOutcome)
        /\ ~IsLookupNotFound(LastOutcome)
        /\ ~IsNoRecordData(LastOutcome)

\* C8 as claimed: an index that is no position of data_list (too large, or
\* negative) is reported as out of range; nothing is mapped or submitted.
C8_IndexOutOfRange ==
    (mode \in { "download", "cli" } /\ data_list # << >>
        /\ (knx >= Len(data_list) \/ knx < 0)) =>
        /\ payload = << >>
        /\ ~Has("map")
        /\ ~Has("submit_post")
        /\ pc = "done" => IsIndexOutOfRange(outcome[1])

\* digits and separators only, of a length normalize_rgst_no brings to 13
Parseable(id) ==
    LET d == RemoveHyphens(id) IN
    /\ d # << >>
    /\ \A i \in 1..Len(d) : IsDecimalChar(d[i])
    /\ Len(d) \in { ShortLen, MidLen, CanonicalLen }

C10_RenderFailure ==
    [][ (pc = "render" /\ HasIn(steps', "render_raised")) =>
          IF mode = "batch"
          THEN /\ zip_file' =
                     Append(zip_file,
                            [ name |-> format_display_number(normalized) \o HtmlExt,
                              content |-> << "html", response >> ])
               /\ results' = Append(results, Entry(input_no, TRUE, "", "",
                                                   additional.arg45))
               /\ pc' = "batch_next"
               /\ idx' = idx + 1
               /\ outcome' = << >>
          ELSE /\ pc' = "done"
               /\ Len(outcome') = 1
               /\ ~outcome'[1].success
               /\ outcome'[1].error = "pdf_convert_failed"
               /\ outcome'[1].cause \in { "UnicodeDecodeError", "OSError" }
               /\ outcome'[1].name = EmptyStr
               /\ zip_file' = zip_file
      ]_vars

\* the archive holds an .html fallback and the batch went on to a second entry
C10_Witness ==
    /\ mode = "batch"
    /\ pc = "done"
    /\ Len(results) = 2
    /\ Len(zip_file) >= 1
    /\ zip_file[1].name = format_display_number(results[1].rgst_no) \o HtmlExt
    /\ zip_file[1].content = << "html", "html" >>

SuccessCount == Cardinality({ i \in 1..Len(results) : results[i].success })

EndsWith(s, ext) ==
    Len(s) >= Len(ext) /\ SubSeq(s, Len(s) - Len(ext) + 1, Len(s)) = ext

\* C11: in a batch the archive holds as many entries as there are outcomes
\* labeled success, each a .pdf or an .html fallback; every step that records
\* a success adds exactly one entry, every step that records a failure adds
\* none, and no other step touches the archive.
C11_ArchiveMatchesSuccesses ==
    /\ [](mode = "batch" =>
            /\ Len(zip_file) = SuccessCount
            /\ \A k \in 1..Len(zip_file) :
                  \/ EndsWith(zip_file[k].name, PdfExt) /\ zip_file[k].content[1] = "pdf"
                  \/ EndsWith(zip_file[k].name, HtmlExt) /\ zip_file[k].content[1] = "html")
    /\ [][ mode = "batch" =>
             IF results' # results
             THEN /\ Len(results') = Len(results) + 1
                  /\ SubSeq(results', 1, Len(results)) = results
                  /\ IF results'[Len(results')].success
                     THEN /\ Len(zip_file') = Len(zip_file) + 1
                          /\ SubSeq(zip_file', 1, Len(zip_file)) = zip_file
                     ELSE zip_file' = zip_file
             ELSE zip_file' = zip_file ]_vars

\* a batch of one failure and one success ended with one archive entry
C11_Witness ==
    /\ mode = "batch"
    /\ pc = "done"
    /\ Len(results) = 2
    /\ results[1].success
    /\ ~results[2].success
    /\ Len(zip_file) = 1
    /\ EndsWith(zip_file[1].name, PdfExt)

Occurrences(tok) == Cardinality({ i \in 1..Len(steps) : steps[i] = tok })

\* C12: in the run of one identifier each of the four network calls is
\* issued at most once, and a call that raised is the last step of the run:
\* the run has ended and no call follows it.
C12_NoRetries ==
    mode \in PipelineModes =>
        /\ \A call \in NetCalls : Occurrences(call) <= 1
        /\ Occurrences("net_fail") <= 1
        /\ Has("net_fail") =>
              /\ steps[Len(steps)] = "net_fail"
              /\ steps[Len(steps) - 1] \in NetCalls
              /\ RunEnded

\* the record-page POST raised after the lookup and the GET had succeeded
C12_Witness ==
    /\ mode = "check"
    /\ pc = "done"
    /\ steps = << "classify", "lookup_get", "page_get", "page_post", "net_fail" >>
    /\ outcome[1].cause = "HTTPError"

-----------------------------------------------------------------------------
(* The extractor and the split that follows it on their own: a page with one  *)
(* ls_arg block of chained quoted values                                       *)

\* values the pattern '([^']*)' captures besides the tags
ExtractValues ==
    { EmptyStr, << "@" >>, << "#" >>, Delim, << "a", "#", "@", "b" >> }

\* n chained values, the k-th is v
ExtractBlock(n, k, v) == [ i \in 1..n |-> IF i = k THEN v ELSE Tag(i) ]

ExtractLens == { 3 } \cup ((MaxFields - 3)..(MaxFields - 1))

ExtractPages ==
    { [ blocks |-> << ExtractBlock(nk[1], nk[2], v) >>, ov |-> o ] :
        nk \in UNION { { << n, k >> : k \in 1..n } : n \in ExtractLens },
        v \in ExtractValues, o \in Overrides }

InitExtract ==
    /\ mode = "unit"
    /\ pc = "extract_input"
    /\ html_source \in { << page >> : page \in ExtractPages }
    /\ rgst_numbers = << >>
    /\ idx = 0
    /\ input_no = EmptyStr
    /\ knx = 0
    /\ appl_no = EmptyStr
    /\ normalized = EmptyStr
    /\ response1 = << >>
    /\ post_data = << >>
    /\ data_list = << >>
    /\ additional = NoAdditional
    /\ ls_arr = << >>
    /\ payload = << >>
    /\ url_path = ""
    /\ response = ""
    /\ results = << >>
    /\ zip_file = << >>
    /\ written = << >>
    /\ output_filename = << >>
    /\ outcome = << >>
    /\ steps = << >>

\* data_list = parse_pdf_data(html_source); additional = parse_additional_params(html_source)
ExtractCall ==
    /\ pc = "extract_input"
    /\ data_list' = parse_pdf_data(html_source[1])
    /\ additional' = parse_additional_params(html_source[1])
    /\ pc' = "extracted"
    /\ steps' = Append(steps, "extract")
    /\ UNCHANGED << mode, rgst_numbers, idx, input_no, knx, appl_no, normalized,
                    response1, post_data, html_source, ls_arr, payload, url_path,
                    response, results, zip_file, written, output_filename, outcome >>

\* ls_arr = data_list[0].split('#@')
SplitCall ==
    /\ pc = "extracted"
    /\ ls_arr' = Split(data_list[1])
    /\ pc' = "split"
    /\ steps' = Append(steps, "split")
    /\ UNCHANGED << mode, rgst_numbers, idx, input_no, knx, appl_no, normalized,
                    response1, post_data, html_source, data_list, additional,
                    payload, url_path, response, results, zip_file, written,
                    output_filename, outcome >>

NextExtract == ExtractCall \/ SplitCall

SpecExtract == InitExtract /\ [][NextExtract]_vars

\* the field sequence the page's block stands for: an empty field 0, then
\* the chained values
OriginalFields == << EmptyStr >> \o html_source[1].blocks[1]

\* C13 as claimed: for every field sequence of at least 45 fields whose
\* first field is empty, splitting the record that parse_pdf_data rebuilds
\* from the chained values gives back the field sequence: same length, same
\* values, same order.
C13_RoundTrip ==
    (pc = "split" /\ Len(OriginalFields) >= 45) => ls_arr = OriginalFields

-----------------------------------------------------------------------------
(* The identifier helpers on their own, called in the order the handlers call  *)
(* them: classification of the raw number, normalization, display form         *)

MaxIdLen == 15

\* the characters at positions [2:6] of the identifiers tried
YearParts ==
    { << "2", "0", "2", "0" >>, << "2", "0", "0", "0" >>, << "2", "0", "9", "9" >>,
      << "1", "9", "9", "9" >>, << "2", "1", "0", "0" >>, << "2", "3", "1", "2" >>,
      << "2", "0", "a", "0" >>, << Sup2, "0", "2", "0" >> }

\* n characters: "10", then the year part y, then digits
IdChars(y, n) ==
    [ i \in 1..n |-> IF i = 1 THEN "1" ELSE IF i = 2 THEN "0"
                     ELSE IF i <= 6 THEN y[i - 2]
                     ELSE Digits[(i % 10) + 1] ]

\* XX-rest
Hyphen1(d) ==
    IF Len(d) > 2 THEN Slice(d, 0, 2) \o << "-" >> \o SliceFrom(d, 2) ELSE d

\* XX-YYYY-rest
Hyphen2(d) ==
    IF Len(d) > 6
    THEN Slice(d, 0, 2) \o << "-" >> \o Slice(d, 2, 6) \o << "-" >> \o SliceFrom(d, 6)
    ELSE Hyphen1(d)

IdInputs ==
    { Strip(RegInput), ApplInput, BadInput, LabelRgst }
        \cup UNION { { IdChars(y, n), Hyphen1(IdChars(y, n)), Hyphen2(IdChars(y, n)) } :
                     y \in YearParts, n \in 0..MaxIdLen }

InitIds ==
    /\ mode = "unit"
    /\ pc = "id_input"
    /\ input_no \in IdInputs
    /\ rgst_numbers = << >>
    /\ idx = 0
    /\ knx = 0
    /\ appl_no = EmptyStr
    /\ normalized = EmptyStr
    /\ response1 = << >>
    /\ post_data = << >>
    /\ html_source = << >>
    /\ data_list = << >>
    /\ additional = NoAdditional
    /\ ls_arr = << >>
    /\ payload = << >>
    /\ url_path = ""
    /\ response = ""
    /\ results = << >>
    /\ zip_file = << >>
    /\ written = << >>
    /\ output_filename = << >>
    /\ outcome = << >>
    /\ steps = << >>

\* the variables no identifier helper touches
IdFrame ==
    UNCHANGED << mode, rgst_numbers, idx, knx, response1, post_data, html_source,
                 data_list, additional, ls_arr, payload, url_path, response,
                 results, zip_file, written >>

\* the web handlers: is_application_number(input_no.replace('-', '')), then
\* normalize_appl_no or normalize_rgst_no by its answer
ClassifyCall ==
    /\ pc = "id_input"
    /\ LET normalized_input == RemoveHyphens(input_no) IN
       IF is_application_number_raises(normalized_input)
       THEN /\ pc' = "id_raised"
            /\ outcome' = << Result(FALSE, "error_occurred", "ValueError", EmptyStr) >>
            /\ steps' = << "classify" >>
            /\ UNCHANGED << appl_no, normalized >>
       ELSE IF is_application_number(normalized_input)
       THEN /\ pc' = "id_application"
            /\ appl_no' = normalize_appl_no(input_no)
            /\ steps' = << "classify", "normalize_appl" >>
            /\ UNCHANGED << normalized, outcome >>
       ELSE /\ pc' = "id_registration"
            /\ normalized' = normalize_rgst_no(input_no)
            /\ steps' = << "classify", "normalize" >>
            /\ UNCHANGED << appl_no, outcome >>
    /\ UNCHANGED << input_no, output_filename >>
    /\ IdFrame

\* download_by_rgst_no: normalize_rgst_no(rgst_no) without a classification
NormalizeCall ==
    /\ pc = "id_input"
    /\ normalized' = normalize_rgst_no(input_no)
    /\ pc' = "id_normalized"
    /\ steps' = << "normalize" >>
    /\ UNCHANGED << input_no, appl_no, output_filename, outcome >>
    /\ IdFrame

\* a normalized number handed to normalize_rgst_no again, as
\* download_by_rgst_no does with a number a caller normalized before
RenormalizeCall ==
    /\ pc \in { "id_registration", "id_normalized" }
    /\ input_no' = normalized
    /\ normalized' = normalize_rgst_no(normalized)
    /\ pc' = "id_renormalized"
    /\ steps' = Append(steps, "renormalize")
    /\ UNCHANGED << appl_no, output_filename, outcome >>
    /\ IdFrame

\* the identifier the display form is made of: the normalized application
\* number on the application branch, else the normalized registration number
Displayed == IF appl_no # EmptyStr THEN appl_no ELSE normalized

\* display_no = format_display_number(...)
DisplayCall ==
    /\ pc \in { "id_application", "id_registration", "id_normalized" }
    /\ IF is_application_number_raises(Displayed)
       THEN /\ pc' = "id_raised"
            /\ outcome' = << Result(FALSE, "error_occurred", "ValueError", EmptyStr) >>
            /\ UNCHANGED output_filename
       ELSE /\ pc' = "id_displayed"
            /\ output_filename' = << format_display_number(Displayed) >>
            /\ UNCHANGED outcome
    /\ steps' = Append(steps, "display")
    /\ UNCHANGED << input_no, appl_no, normalized >>
    /\ IdFrame

NextIds == ClassifyCall \/ NormalizeCall \/ RenormalizeCall \/ DisplayCall

SpecIds == InitIds /\ [][NextIds]_vars

Zeros(n) == [ i \in 1..n |-> "0" ]

\* C14: after the hyphens are removed, a result of 9 characters is returned
\* followed by exactly "0000", one of 10 characters followed by exactly
\* "000", any other unchanged; the call returns for every input.
C14_NormalizeLengths ==
    (mode = "unit" /\ (HasIn(steps, "normalize") \/ HasIn(steps, "renormalize"))) =>
        LET d == RemoveHyphens(input_no) IN
        /\ Len(d) = 9 => normalized = d \o Zeros(4)
        /\ Len(d) = 10 => normalized = d \o Zeros(3)
        /\ Len(d) \notin { 9, 10 } => normalized = d
        /\ steps[Len(steps)] \in { "normalize", "renormalize" } =>
              (pc # "id_raised" /\ outcome = << >>)

\* "10-2312907" was normalized to "1023129070000"
C14_Witness ==
    /\ pc = "id_normalized"
    /\ input_no = Strip(RegInput)
    /\ normalized = PageRgst

\* all characters are 0..9 and the number they write is in lo..hi
DecimalIn(s, lo, hi) ==
    /\ s # << >>
    /\ \A i \in 1..Len(s) : IsDecimalChar(s[i])
    /\ lo <= ToInt(s)
    /\ ToInt(s) <= hi

\* C15 as claimed: the classification answers Application exactly when the
\* hyphen-free input has at least 13 characters and its characters [2:6] are
\* all digits whose integer value is in 2000..2099, and Registration for
\* every other input.
C15_ClassifyIff ==
    (mode = "unit" /\ steps # << >> /\ steps[1] = "classify" /\ Len(steps) <= 2) =>
        LET d == RemoveHyphens(input_no)
            application == Len(d) >= 13 /\ DecimalIn(Slice(d, 2, 6), 2000, 2099)
        IN  /\ application => pc = "id_application"
            /\ ~application => pc = "id_registration"

\* a canonical identifier: 13 characters, all 0..9
Canonical(id) == Len(id) = 13 /\ \A i \in 1..13 : IsDecimalChar(id[i])

\* C16: the display form of a canonical 13-digit identifier is, for an
\* application number (year digits in 2000..2099), 2 digits, '-', the 4 year
\* digits, '-', the remaining 7 digits, and for a registration number
\* 2 digits, '-', the next 7 digits, the last 4 digits dropped.
C16_DisplayForm ==
    (mode = "unit" /\ pc = "id_displayed" /\ Canonical(Displayed)) =>
        output_filename[1] =
            IF DecimalIn(SubSeq(Displayed, 3, 6), 2000, 2099)
            THEN SubSeq(Displayed, 1, 2) \o << "-" >> \o SubSeq(Displayed, 3, 6)
                     \o << "-" >> \o SubSeq(Displayed, 7, 13)
            ELSE SubSeq(Displayed, 1, 2) \o << "-" >> \o SubSeq(Displayed, 3, 9)

\* "10-2312907" normalized and displayed again as "10-2312907"
C16_Witness ==
    /\ pc = "id_displayed"
    /\ normalized = PageRgst
    /\ appl_no = EmptyStr
    /\ output_filename = << Strip(RegInput) >>

\* C19 as claimed: an input the handler classified as a registration number
\* and normalized with normalize_rgst_no is displayed in the registration
\* format, 2 characters, '-', the next 7, and never in the application format.
C19_RegistrationDisplay ==
    (mode = "unit" /\ pc = "id_displayed"
        /\ steps = << "classify", "normalize", "display" >>) =>
        output_filename[1] =
            Slice(normalized, 0, 2) \o << "-" >> \o Slice(normalized, 2, 9)

\* C20: normalize_rgst_no applied to its own result returns it unchanged, and
\* no result has 9 or 10 characters.
C20_NormalizeIdempotent ==
    /\ (mode = "unit" /\ pc = "id_renormalized") => normalized = input_no
    /\ (mode = "unit" /\ (HasIn(steps, "normalize") \/ HasIn(steps, "renormalize"))) =>
          Len(normalized) \notin { 9, 10 }

\* a padded number went through normalize_rgst_no a second time
C20_Witness ==
    /\ pc = "id_renormalized"
    /\ steps = << "normalize", "renormalize" >>
    /\ normalized = PageRgst
    /\ input_no = PageRgst

\* C18: for every field list and every override triple the inline mapping
\* of download_annual_rgst_pdf and build_payload give the same 47 slots, and
\* the two selections choose the same endpoint for them: whichever of the
\* two computed the payload and the endpoint, the other computes the same.
C18_MappersAgree ==
    /\ pc \in { "unit_mapped", "unit_selected" } =>
          payload = inline_payload(ls_arr, additional.arg44, additional.arg45,
                                   additional.arg46)
    /\ pc \in { "inline_mapped", "inline_selected" } =>
          payload = build_payload(ls_arr, additional)
    /\ pc = "unit_selected" => url_path = inline_select_url(payload)
    /\ pc = "inline_selected" => url_path = select_url(payload)

\* the inline code mapped a record of 3 fields and chose the default endpoint
C18_Witness ==
    /\ pc = "inline_selected"
    /\ Len(ls_arr) = 3
    /\ payload[44] = FeeStart
    /\ payload[47] = EmptyStr
    /\ url_path = Res2

-----------------------------------------------------------------------------
(* get_registration_page on its own, as test_fetch.py runs its two steps       *)

FetchIds == { PageRgst, KvRgst, BadInput }

InitFetch ==
    /\ mode = "fetch"
    /\ pc = "page_get"
    /\ normalized \in FetchIds
    /\ rgst_numbers = << >>
    /\ idx = 0
    /\ input_no = EmptyStr
    /\ knx = 0
    /\ appl_no = EmptyStr
    /\ response1 = << >>
    /\ post_data = << >>
    /\ html_source = << >>
    /\ data_list = << >>
    /\ additional = NoAdditional
    /\ ls_arr = << >>
    /\ payload = << >>
    /\ url_path = ""
    /\ response = ""
    /\ results = << >>
    /\ zip_file = << >>
    /\ written = << >>
    /\ output_filename = << >>
    /\ outcome = << >>
    /\ steps = << >>

NextFetch == PageGet \/ PagePost

SpecFetch == InitFetch /\ [][NextFetch]_vars

\* C17: get_registration_page issues the GET before the POST and the POST
\* only after a GET that did not fail; the form of the POST holds exactly
\* rgstNo and startAnn, each the value captured in the GET's body or, when
\* its variable is not found there, the caller's number and '' respectively;
\* what is returned is the body of the POST's response.
C17_FetchRecordPage ==
    mode = "fetch" =>
        /\ pc = "page_get" => (steps = << >> /\ post_data = << >>)
        /\ pc = "page_post" => (steps = << "page_get" >> /\ post_data # << >>)
        /\ HasIn(steps, "page_post") =>
              (Len(steps) >= 2 /\ steps[1] = "page_get" /\ steps[2] = "page_post"
                  /\ post_data # << >>)
        /\ post_data # << >> =>
              /\ response1 # << >>
              /\ DOMAIN post_data[1] = { "rgstNo", "startAnn" }
              /\ post_data[1].rgstNo =
                    IF response1[1].vRgstNo = << >> THEN normalized
                    ELSE response1[1].vRgstNo[1]
              /\ post_data[1].startAnn =
                    IF response1[1].vFeeStartAnn = << >> THEN EmptyStr
                    ELSE response1[1].vFeeStartAnn[1]
        /\ steps = << "page_get", "net_fail" >> =>
              (pc = "done" /\ post_data = << >> /\ response1 = << >>)
        /\ pc = "done" =>
              /\ Len(outcome) = 1
              /\ outcome[1].success =>
                    (steps = << "page_get", "page_post" >>
                        /\ html_source \in { << page >> : page \in Pages })
              /\ ~outcome[1].success =>
                    (html_source = << >> /\ outcome[1].cause \in NetFail
                        /\ steps[Len(steps)] = "net_fail")

\* the GET's body had no vRgstNo but a fee-start token: the POST carried the
\* caller's number and the token, and its body was returned
C17_Witness ==
    /\ mode = "fetch"
    /\ pc = "done"
    /\ outcome[1].success
    /\ response1[1].vRgstNo = << >>
    /\ post_data = << [ rgstNo |-> normalized, startAnn |-> FeeStart ] >>
    /\ html_source[1].blocks # << >>

-----------------------------------------------------------------------------
(* The file written by download_by_rgst_no *)

\* download_by_rgst_no came back with False, as opposed to leaving by an
\* exception
ReturnedFalse ==
    /\ pc = "done"
    /\ Len(outcome) = 1
    /\ ~outcome[1].success
    /\ outcome[1].error # "uncaught"

\* the file is written once, under output_filename, and only by a run whose
\* submission POST came back with a success status
CliWriteOnlyAfterPost ==
    (mode = "cli" /\ written # << >>) =>
        /\ written = output_filename
        /\ pc = "done"
        /\ outcome[1].success
        /\ steps[Len(steps)] = "submit_post"

\* the submission POST raised: False, and no file
CliFalseOnPostFailure ==
    (mode = "cli" /\ Has("submit_post") /\ Has("net_fail")) =>
        (ReturnedFalse /\ written = << >>)

\* the page fetch raised: False, and no file
CliFalseOnPageFailure ==
    (mode = "cli" /\ Has("net_fail") /\ ~Has("submit_post")) =>
        (ReturnedFalse /\ written = << >> /\ ~Has("extract") /\ ~Has("map"))

\* parse_pdf_data found nothing: False, and no file
CliFalseOnNoRecord ==
    (mode = "cli" /\ Has("extract_empty")) =>
        (ReturnedFalse /\ written = << >> /\ ~Has("submit_post"))

\* data_list[knx] does not exist: False, and no file
CliFalseOnBadIndex ==
    (mode = "cli" /\ data_list # << >> /\ PyIndex(data_list, knx) = << >>) =>
        (ReturnedFalse /\ written = << >> /\ ~Has("submit_post"))

\* C21 as claimed: download_by_rgst_no writes the output file only after the
\* submission POST returned a success status; when that POST raises, when the
\* page fetch raises, when no record is extracted and when the index is out
\* of range it returns False and no file is written.
C21_FileOnlyAfterPost ==
    /\ CliWriteOnlyAfterPost
    /\ CliFalseOnPostFailure
    /\ CliFalseOnPageFailure
    /\ CliFalseOnNoRecord
    /\ CliFalseOnBadIndex

=============================================================================
